---- MODULE Spec2Model ----
(***************************************************************************)
(* ez-audio: a registry of sound clips (AudioInterface.cc), each with its  *)
(* own miniaudio device and decoder, the real-time data_callback and the   *)
(* detached resetDevice thread (AudioPlayer.cc).                            *)
(*                                                                         *)
(* Granularity: one step per source statement of a control-plane function  *)
(* and of the resetDevice thread, one step per data_callback invocation.   *)
(***************************************************************************)
EXTENDS Integers, FiniteSets, Sequences, Bags, TLC

\* ---- bounds ----
MaxId == 2
MaxClips == 2
MaxResets == 2
ClipLen == 1
MaxFrames == 1
MaxGain == 1
NumDevices == 1
NumThreads == 1

Ids == 1..MaxId
Clips == 1..MaxClips
Gains == 0..MaxGain
Devices == 1..NumDevices
Threads == 1..NumThreads

\* no entry, no object
NULL == 0

\* the values of eos that are no gain
NoEos == MaxGain + 1
Untracked == MaxGain + 2

Min(a, b) == IF a < b THEN a ELSE b

VARIABLES
  soundClips,   \* AudioContext::soundClips : id -> SoundClip* (NULL = no entry)
  mtx,          \* AudioContext::mtx : 0 = free, else the control thread holding it
  ctx,          \* AudioContext::context : "open" | "closed"
  clips,        \* the SoundClip objects, by address
  tasks,        \* the detached threads spawned by resetDevice and still
                \* running: a bag of [clip, oldVolume, pc]
  th,           \* the control-plane threads
  crashed,      \* the process was killed by an access to released memory
  duration,     \* the getDuration computation under study: its inputs and,
                \* once it has run, its result (NoDuration = none)
  eos           \* history, kept for the clips whose entry does not start as
                \* Untracked: the gain the first short read captured since
                \* the last control call on the clip (NoEos = none)

vars == <<soundClips, mtx, ctx, clips, tasks, th, crashed, eos, duration>>

\* ---- SoundClip ----
\* mem: "unalloc" (address never handed out) | "live" | "freed" (delete'd)
\* decoder: "none" | "open" | "closed";  cursor: the decoder's read position
\* device: "none" | "stopped" | "started" | "closed"
NoClip ==
  [mem |-> "unalloc", decoder |-> "none", cursor |-> 0, device |-> "none",
   masterVolumeFactor |-> 0, audioDevice |-> NULL, pDeviceID |-> NULL,
   bound |-> NULL, mtx |-> FALSE]

\* a delete'd SoundClip: what released memory holds is not part of the state
FreedClip == [NoClip EXCEPT !.mem = "freed"]

NoDuration == [sampleRate |-> 0, frames |-> 0, ms |-> -1]

\* was: history, the clip as it was when the call in progress began (kept by
\* setAudioDevice), or what the call that returned last has set (kept by
\* setVolume)
IdleThread == [pc |-> "idle", op |-> "none", id |-> NULL, arg |-> 0,
               clip |-> NULL, todo |-> {}, ret |-> "none",
               was |-> [id |-> NULL, value |-> 0]]

\* ---- miniaudio calls, by their effect on one SoundClip ----
\* ma_decoder_read_pcm_frames: the number of frames delivered
FramesRead(c, framesToRead) == Min(framesToRead, ClipLen - c.cursor)

ma_decoder_read_pcm_frames(c, framesToRead) ==
  [c EXCEPT !.cursor = c.cursor + FramesRead(c, framesToRead)]

ma_decoder_seek_to_pcm_frame(c, frame) ==
  IF c.decoder = "open" THEN [c EXCEPT !.cursor = frame] ELSE c

ma_decoder_uninit(c) ==
  IF c.decoder = "open" THEN [c EXCEPT !.decoder = "closed"] ELSE c

ma_device_is_started(c) == c.device = "started"

ma_device_start(c) ==
  IF c.device = "stopped" THEN [c EXCEPT !.device = "started"] ELSE c

\* ma_device_stop returns once the device's thread is out of the callback
ma_device_stop(c) ==
  IF c.device = "started" THEN [c EXCEPT !.device = "stopped"] ELSE c

ma_device_uninit(c) ==
  IF c.device \in {"started", "stopped"} THEN [c EXCEPT !.device = "closed"] ELSE c

\* ---- std::unordered_map ----
Has(m, id) == m[id] # NULL

\* operator[] assignment, which replaces an entry: a faulty insert, against
\* which C6 is tested
MapAssign(m, id, a) == [m EXCEPT ![id] = a]

MapInsert(m, id, a) == IF Has(m, id) THEN m ELSE [m EXCEPT ![id] = a]

\* an erase that is lost, against which C5 is tested
MapKeep(m, id) == m

MapErase(m, id) == [m EXCEPT ![id] = NULL]

Registered == {soundClips[id] : id \in {i \in Ids : Has(soundClips, i)}}

\* the first address new has not handed out yet
FreshClip == CHOOSE a \in Clips : clips[a].mem = "unalloc" /\ \A b \in Clips : clips[b].mem = "unalloc" => a <= b

\* the reset threads alive for clip a
InFlight(a) == {r \in BagToSet(tasks) : r.clip = a}

Init ==
  /\ soundClips = [id \in Ids |-> NULL]
  /\ mtx = 0
  /\ ctx = "open"
  /\ clips = [a \in Clips |-> NoClip]
  /\ tasks = EmptyBag
  /\ th = [t \in Threads |-> IdleThread]
  /\ crashed = FALSE
  /\ eos = [a \in Clips |-> Untracked]
  /\ duration = NoDuration

\* ---------------------------------------------------------------------
\* data_callback (AudioPlayer.cc:16-28), run by the device's own thread.
\* It takes no lock and ma_device_stop and ma_device_uninit wait for it to
\* return, so one invocation is one step.
\* ---------------------------------------------------------------------
\* resetDevice (AudioPlayer.cc:30-41): the detached thread, with its captures
resetDevice(a, oldVolume) ==
  tasks (+) SetToBag({[clip |-> a, oldVolume |-> oldVolume, pc |-> "lock"]})

\* the thread r goes on to pc
Step(r, pc) == (tasks (-) SetToBag({r})) (+) SetToBag({[r EXCEPT !.pc = pc]})

\* the thread r ends
Exit(r) == tasks (-) SetToBag({r})

Record(a, oldVolume) ==
  IF eos[a] = NoEos THEN [eos EXCEPT ![a] = oldVolume] ELSE eos

\* lines 23-26: the short read (c is the clip after the read of line 21).
\* MaxResets caps the reset threads alive at once.
ShortRead(a, c) ==
  LET oldVolume == c.masterVolumeFactor
  IN /\ BagCardinality(tasks) < MaxResets
     /\ clips' = [clips EXCEPT ![a] =
                    ma_decoder_seek_to_pcm_frame([c EXCEPT !.masterVolumeFactor = 0], 0)]
     /\ tasks' = resetDevice(a, oldVolume)
     /\ eos' = Record(a, oldVolume)

\* a callback that waits for the registry lock and for clip->mtx, against
\* which C17 is tested
data_callbackLocked(a) ==
  /\ ~crashed
  /\ mtx = 0
  /\ ~clips[a].mtx
  /\ clips[a].device = "started"
  /\ clips[a].decoder = "open"
  /\ \E framesToRead \in 1..MaxFrames :
       LET framesRead == FramesRead(clips[a], framesToRead)
           c == ma_decoder_read_pcm_frames(clips[a], framesToRead)
       IN IF framesRead < framesToRead
          THEN ShortRead(a, c)
          ELSE /\ clips' = [clips EXCEPT ![a] = c]
               /\ UNCHANGED <<tasks, eos>>
  /\ UNCHANGED <<soundClips, mtx, ctx, th, crashed>>
  /\ UNCHANGED duration

\* the backend asks a started device for framesToRead frames
data_callback(a) ==
  /\ ~crashed
  /\ clips[a].device = "started"
  /\ clips[a].decoder = "open"
  /\ \E framesToRead \in 1..MaxFrames :
       LET framesRead == FramesRead(clips[a], framesToRead)
           c == ma_decoder_read_pcm_frames(clips[a], framesToRead)
       IN IF framesRead < framesToRead
          THEN ShortRead(a, c)
          ELSE /\ clips' = [clips EXCEPT ![a] = c]
               /\ UNCHANGED <<tasks, eos>>
  /\ UNCHANGED <<soundClips, mtx, ctx, th, crashed>>
  /\ UNCHANGED duration

\* the same on a decoder that ma_decoder_uninit has released: the read of
\* released state kills the process, or returns some frame count
data_callbackReleased(a) ==
  /\ ~crashed
  /\ clips[a].device = "started"
  /\ clips[a].decoder # "open"
  /\ \/ /\ crashed' = TRUE
        /\ UNCHANGED <<clips, tasks, eos>>
     \/ /\ ShortRead(a, clips[a])
        /\ UNCHANGED crashed
     \/ UNCHANGED <<clips, tasks, eos, crashed>>
  /\ UNCHANGED <<soundClips, mtx, ctx, th>>
  /\ UNCHANGED duration

\* ---------------------------------------------------------------------
\* the thread body of resetDevice (AudioPlayer.cc:31-39)
\* ---------------------------------------------------------------------
\* a lock of line 33 that does not wait, against which C16 is tested
ResetLockNoWait(r) ==
  /\ ~crashed
  /\ r.pc = "lock"
  /\ clips[r.clip].mem = "live"
  /\ clips' = [clips EXCEPT ![r.clip].mtx = TRUE]
  /\ tasks' = Step(r, "stop")
  /\ UNCHANGED <<soundClips, mtx, ctx, th, crashed, eos>>
  /\ UNCHANGED duration

\* line 33
ResetLock(r) ==
  /\ ~crashed
  /\ r.pc = "lock"
  /\ clips[r.clip].mem = "live"
  /\ ~clips[r.clip].mtx
  /\ clips' = [clips EXCEPT ![r.clip].mtx = TRUE]
  /\ tasks' = Step(r, "stop")
  /\ UNCHANGED <<soundClips, mtx, ctx, th, crashed, eos>>
  /\ UNCHANGED duration

\* line 34
ResetStop(r) ==
  /\ ~crashed
  /\ r.pc = "stop"
  /\ clips[r.clip].mem = "live"
  /\ clips' = [clips EXCEPT ![r.clip] = ma_device_stop(clips[r.clip])]
  /\ tasks' = Step(r, "seek")
  /\ UNCHANGED <<soundClips, mtx, ctx, th, crashed, eos>>
  /\ UNCHANGED duration

\* line 35; on a decoder that ma_decoder_uninit has released the seek does
\* nothing or kills the process
ResetSeek(r) ==
  /\ ~crashed
  /\ r.pc = "seek"
  /\ clips[r.clip].mem = "live"
  /\ \/ /\ clips' = [clips EXCEPT ![r.clip] = ma_decoder_seek_to_pcm_frame(clips[r.clip], 0)]
        /\ tasks' = Step(r, "restore")
        /\ UNCHANGED crashed
     \/ /\ clips[r.clip].decoder = "closed"
        /\ crashed' = TRUE
        /\ UNCHANGED <<clips, tasks>>
  /\ UNCHANGED <<soundClips, mtx, ctx, th, eos>>
  /\ UNCHANGED duration

\* line 36, then the lock_guard's release at the end of the lambda
ResetRestore(r) ==
  /\ ~crashed
  /\ r.pc = "restore"
  /\ clips[r.clip].mem = "live"
  /\ clips' = [clips EXCEPT ![r.clip].masterVolumeFactor = r.oldVolume,
                            ![r.clip].mtx = FALSE]
  /\ tasks' = Exit(r)
  /\ UNCHANGED <<soundClips, mtx, ctx, th, crashed, eos>>
  /\ UNCHANGED duration

\* lines 33-36 on a SoundClip that was delete'd: the thread runs on over
\* released memory (none of which is part of the state, so the rest of the
\* thread is one step), or the access kills the process
ResetReleased(r) ==
  /\ ~crashed
  /\ clips[r.clip].mem = "freed"
  /\ \/ /\ tasks' = Exit(r)
        /\ UNCHANGED crashed
     \/ /\ crashed' = TRUE
        /\ UNCHANGED tasks
  /\ UNCHANGED <<soundClips, mtx, ctx, clips, th, eos>>
  /\ UNCHANGED duration

\* ---------------------------------------------------------------------
\* the control plane (AudioInterface.cc).  A call starts from pc "idle" with
\* its first statement; soundClips->at(id) on a missing id throws
\* std::out_of_range, which ends the call.
\* ---------------------------------------------------------------------
\* the call returns r (or throws it, or leaves it on stdout)
Done(t, r) == [th EXCEPT ![t] = [IdleThread EXCEPT !.ret = r]]

\* the call goes on at pc
Goto(t, op, id, pc) ==
  [th EXCEPT ![t] = [IdleThread EXCEPT !.pc = pc, !.op = op, !.id = id]]

\* nothing runs in a killed process, and no call is made on a context that
\* uninit has released or is releasing
CanCall(t) ==
  /\ ~crashed
  /\ th[t].pc = "idle"
  /\ ctx = "open"
  /\ \A u \in Threads : th[u].op # "uninit"

At(t, pc) == ~crashed /\ th[t].pc = pc

\* a control call on clip a ends the end-of-stream history of a
Touch(a) == IF eos[a] = Untracked THEN eos ELSE [eos EXCEPT ![a] = NoEos]

\* soundClips->at(id) threw
Throw(t) ==
  /\ th' = Done(t, "out_of_range")
  /\ UNCHANGED <<clips, eos>>

\* setVolume, line 27.  History: a call made while a reset thread of the
\* clip is alive leaves its id and value in was, until the next call.
setVolume(t, id, value) ==
  /\ CanCall(t)
  /\ IF ~Has(soundClips, id) THEN Throw(t)
     ELSE LET a == soundClips[id]
          IN /\ clips' = [clips EXCEPT ![a].masterVolumeFactor = value]
             /\ th' = IF InFlight(a) = {} THEN Done(t, "void")
                      ELSE [th EXCEPT ![t] = [IdleThread EXCEPT !.ret = "void",
                                                !.was = [id |-> id, value |-> value]]]
             /\ eos' = Touch(a)
  /\ UNCHANGED <<soundClips, mtx, ctx, tasks, crashed>>
  /\ UNCHANGED duration

\* getVolume, line 31
getVolume(t, id) ==
  /\ CanCall(t)
  /\ IF ~Has(soundClips, id) THEN Throw(t)
     ELSE /\ th' = Done(t, "value")
          /\ UNCHANGED <<clips, eos>>
  /\ UNCHANGED <<soundClips, mtx, ctx, tasks, crashed>>
  /\ UNCHANGED duration

\* play, line 35
play35(t, id) ==
  /\ CanCall(t)
  /\ IF ~Has(soundClips, id) THEN Throw(t)
     ELSE LET a == soundClips[id]
          IN /\ th' = IF ma_device_is_started(clips[a]) THEN Done(t, "void")
                      ELSE Goto(t, "play", id, "play36")
             /\ eos' = Touch(a)
             /\ UNCHANGED clips
  /\ UNCHANGED <<soundClips, mtx, ctx, tasks, crashed>>
  /\ UNCHANGED duration

\* play, lines 36-38: ma_device_start fails on a device that is not stopped,
\* and can fail in the backend
play36(t) ==
  /\ At(t, "play36")
  /\ IF ~Has(soundClips, th[t].id) THEN Throw(t)
     ELSE LET a == soundClips[th[t].id]
          IN /\ eos' = Touch(a)
             /\ \/ /\ clips[a].device = "stopped"
                   /\ clips' = [clips EXCEPT ![a] = ma_device_start(clips[a])]
                   /\ th' = Done(t, "void")
                \/ /\ UNCHANGED clips
                   /\ th' = Done(t, "Failed to start playback")
  /\ UNCHANGED <<soundClips, mtx, ctx, tasks, crashed>>
  /\ UNCHANGED duration

\* reset, line 43
reset43(t, id) ==
  /\ CanCall(t)
  /\ IF ~Has(soundClips, id) THEN Throw(t)
     ELSE LET a == soundClips[id]
          IN /\ clips' = [clips EXCEPT ![a] = ma_device_stop(clips[a])]
             /\ th' = Goto(t, "reset", id, "reset44")
             /\ eos' = Touch(a)
  /\ UNCHANGED <<soundClips, mtx, ctx, tasks, crashed>>
  /\ UNCHANGED duration

\* reset, line 44
reset44(t) ==
  /\ At(t, "reset44")
  /\ IF ~Has(soundClips, th[t].id) THEN Throw(t)
     ELSE LET a == soundClips[th[t].id]
          IN /\ clips' = [clips EXCEPT ![a].masterVolumeFactor = 0]
             /\ th' = [th EXCEPT ![t].pc = "reset45"]
             /\ eos' = Touch(a)
  /\ UNCHANGED <<soundClips, mtx, ctx, tasks, crashed>>
  /\ UNCHANGED duration

\* reset, line 45
reset45(t) ==
  /\ At(t, "reset45")
  /\ IF ~Has(soundClips, th[t].id) THEN Throw(t)
     ELSE LET a == soundClips[th[t].id]
          IN /\ clips' = [clips EXCEPT ![a] = ma_decoder_seek_to_pcm_frame(clips[a], 0)]
             /\ th' = Done(t, "void")
             /\ eos' = Touch(a)
  /\ UNCHANGED <<soundClips, mtx, ctx, tasks, crashed>>
  /\ UNCHANGED duration

\* a stop that stops every registered device, against which C10 is tested
stopAll(t, id) ==
  /\ CanCall(t)
  /\ IF ~Has(soundClips, id) THEN Throw(t)
     ELSE /\ clips' = [a \in Clips |->
                        IF a \in Registered THEN ma_device_stop(clips[a]) ELSE clips[a]]
          /\ th' = Done(t, "void")
          /\ eos' = Touch(soundClips[id])
  /\ UNCHANGED <<soundClips, mtx, ctx, tasks, crashed>>
  /\ UNCHANGED duration

\* stop, line 49
stop(t, id) ==
  /\ CanCall(t)
  /\ IF ~Has(soundClips, id) THEN Throw(t)
     ELSE LET a == soundClips[id]
          IN /\ clips' = [clips EXCEPT ![a] = ma_device_stop(clips[a])]
             /\ th' = Done(t, "void")
             /\ eos' = Touch(a)
  /\ UNCHANGED <<soundClips, mtx, ctx, tasks, crashed>>
  /\ UNCHANGED duration

\* isPlaying, line 165
isPlaying(t, id) ==
  /\ CanCall(t)
  /\ IF ~Has(soundClips, id) THEN Throw(t)
     ELSE /\ th' = Done(t, IF ma_device_is_started(clips[soundClips[id]])
                           THEN "true" ELSE "false")
          /\ UNCHANGED <<clips, eos>>
  /\ UNCHANGED <<soundClips, mtx, ctx, tasks, crashed>>
  /\ UNCHANGED duration

\* getDuration, lines 159-161
getDuration(t, id) ==
  /\ CanCall(t)
  /\ IF ~Has(soundClips, id) THEN Throw(t)
     ELSE /\ th' = Done(t, "value")
          /\ UNCHANGED <<clips, eos>>
  /\ UNCHANGED <<soundClips, mtx, ctx, tasks, crashed>>
  /\ UNCHANGED duration

\* the device ma_device_init opens from a deviceConfig
ma_device_init(c) ==
  [c EXCEPT !.device = "stopped", !.bound = c.pDeviceID, !.masterVolumeFactor = 1]

\* the SoundClip of lines 53-81, once decoder and device are open
NewClip(device) ==
  ma_device_init([NoClip EXCEPT !.mem = "live", !.decoder = "open",
                                !.audioDevice = device, !.pDeviceID = device])

\* load, lines 53-81, all on a SoundClip no other thread can see yet: new
\* SoundClip; ma_decoder_init_file, which fails on a bad path (-1); the
\* device configuration and ma_device_init, which fails when the backend
\* cannot open the device (-2).  Both failures release what was opened and
\* delete the clip.  MaxClips caps the clips ever allocated.
load53From(t, id, devices) ==
  /\ CanCall(t)
  /\ \E a \in Clips : clips[a].mem = "unalloc"
  /\ \E device \in devices, opened \in BOOLEAN, bind \in BOOLEAN :
       IF ~opened
       THEN /\ th' = Done(t, "-1")
            /\ UNCHANGED clips
       ELSE IF ~bind
       THEN /\ th' = Done(t, "-2")
            /\ UNCHANGED clips
       ELSE /\ clips' = [clips EXCEPT ![FreshClip] = NewClip(device)]
            /\ th' = [th EXCEPT ![t] = [IdleThread EXCEPT !.pc = "load83", !.op = "load",
                                          !.id = id, !.clip = FreshClip]]
  /\ UNCHANGED <<soundClips, mtx, ctx, tasks, crashed, eos>>
  /\ UNCHANGED duration

\* load with one of the Devices
load53(t, id) == load53From(t, id, Devices)

\* load, line 83
load83(t) ==
  /\ At(t, "load83")
  /\ mtx = 0
  /\ mtx' = t
  /\ th' = [th EXCEPT ![t].pc = "load84"]
  /\ UNCHANGED <<soundClips, ctx, clips, tasks, crashed, eos>>
  /\ UNCHANGED duration

\* load, lines 84-86, and the lock_guard's release
load84(t) ==
  /\ At(t, "load84")
  /\ soundClips' = MapInsert(soundClips, th[t].id, th[t].clip)
  /\ mtx' = 0
  /\ th' = Done(t, "0")
  /\ UNCHANGED <<ctx, clips, tasks, crashed, eos>>
  /\ UNCHANGED duration

\* whether a statement that uses the SoundClip of id kills the process: on a
\* delete'd SoundClip it may (FALSE = the process goes on)
UseOf(id) ==
  IF Has(soundClips, id) /\ clips[soundClips[id]].mem = "freed" THEN BOOLEAN ELSE {FALSE}

\* removeSound, line 90
removeSound90(t, id) ==
  /\ CanCall(t)
  /\ IF ~Has(soundClips, id) THEN Throw(t)
     ELSE LET a == soundClips[id]
          IN /\ clips' = [clips EXCEPT ![a] = ma_device_uninit(clips[a])]
             /\ th' = Goto(t, "removeSound", id, "removeSound91")
             /\ eos' = Touch(a)
  /\ crashed' \in UseOf(id)
  /\ UNCHANGED <<soundClips, mtx, ctx, tasks>>
  /\ UNCHANGED duration

\* removeSound, line 91
removeSound91(t) ==
  /\ At(t, "removeSound91")
  /\ IF ~Has(soundClips, th[t].id) THEN Throw(t)
     ELSE LET a == soundClips[th[t].id]
          IN /\ clips' = [clips EXCEPT ![a] = ma_decoder_uninit(clips[a])]
             /\ th' = [th EXCEPT ![t].pc = "removeSound92"]
             /\ eos' = Touch(a)
  /\ crashed' \in UseOf(th[t].id)
  /\ UNCHANGED <<soundClips, mtx, ctx, tasks>>
  /\ UNCHANGED duration

\* removeSound, line 92
removeSound92(t) ==
  /\ At(t, "removeSound92")
  /\ IF ~Has(soundClips, th[t].id) THEN Throw(t)
     ELSE LET a == soundClips[th[t].id]
          IN /\ clips' = [clips EXCEPT ![a] = FreedClip]
             /\ th' = [th EXCEPT ![t].pc = "removeSound93"]
             /\ eos' = Touch(a)
  /\ crashed' \in UseOf(th[t].id)
  /\ UNCHANGED <<soundClips, mtx, ctx, tasks>>
  /\ UNCHANGED duration

\* removeSound, line 93
removeSound93(t) ==
  /\ At(t, "removeSound93")
  /\ mtx = 0
  /\ mtx' = t
  /\ th' = [th EXCEPT ![t].pc = "removeSound94"]
  /\ UNCHANGED <<soundClips, ctx, clips, tasks, crashed, eos>>
  /\ UNCHANGED duration

\* removeSound, line 94, and the lock_guard's release
removeSound94(t) ==
  /\ At(t, "removeSound94")
  /\ soundClips' = MapErase(soundClips, th[t].id)
  /\ mtx' = 0
  /\ th' = Done(t, "void")
  /\ UNCHANGED <<ctx, clips, tasks, crashed, eos>>
  /\ UNCHANGED duration

\* setAudioDevice, line 132
setAudioDevice132From(t, id, devices) ==
  /\ CanCall(t)
  /\ IF ~Has(soundClips, id) THEN Throw(t)
     ELSE LET a == soundClips[id]
          IN /\ \E device \in devices :
                  clips' = [clips EXCEPT ![a].audioDevice = device]
             /\ th' = [th EXCEPT ![t] = [IdleThread EXCEPT
                                           !.pc = "setAudioDevice134",
                                           !.op = "setAudioDevice",
                                           !.id = id, !.was = clips[a]]]
             /\ eos' = Touch(a)
  /\ UNCHANGED <<soundClips, mtx, ctx, tasks, crashed>>
  /\ UNCHANGED duration

\* setAudioDevice with one of the Devices
setAudioDevice132(t, id) == setAudioDevice132From(t, id, Devices)

\* setAudioDevice, line 134
setAudioDevice134(t) ==
  /\ At(t, "setAudioDevice134")
  /\ IF ~Has(soundClips, th[t].id) THEN Throw(t)
     ELSE LET a == soundClips[th[t].id]
          IN /\ clips' = [clips EXCEPT ![a] = ma_device_uninit(clips[a])]
             /\ th' = [th EXCEPT ![t].pc = "setAudioDevice135"]
             /\ eos' = Touch(a)
  /\ UNCHANGED <<soundClips, mtx, ctx, tasks, crashed>>
  /\ UNCHANGED duration

\* setAudioDevice, line 135: ma_device_init from the clip's deviceConfig; its
\* result is not looked at
setAudioDevice135(t) ==
  /\ At(t, "setAudioDevice135")
  /\ IF ~Has(soundClips, th[t].id) THEN Throw(t)
     ELSE LET a == soundClips[th[t].id]
          IN /\ \E bind \in BOOLEAN :
                  clips' = IF bind THEN [clips EXCEPT ![a] = ma_device_init(clips[a])]
                           ELSE clips
             /\ th' = Done(t, "void")
             /\ eos' = Touch(a)
  /\ UNCHANGED <<soundClips, mtx, ctx, tasks, crashed>>
  /\ UNCHANGED duration

\* uninit, line 15: the iteration over soundClips begins.  The caller makes
\* it the last call on the context: no other call is in progress.
uninit(t) ==
  /\ CanCall(t)
  /\ \A u \in Threads : th[u].pc = "idle"
  /\ th' = [th EXCEPT ![t] = [IdleThread EXCEPT !.pc = "uninit15", !.op = "uninit",
                                !.todo = {id \in Ids : Has(soundClips, id)}]]
  /\ UNCHANGED <<soundClips, mtx, ctx, clips, tasks, crashed, eos>>
  /\ UNCHANGED duration

\* uninit, line 15: the next pair of the map, in the map's own order
uninit15(t) ==
  /\ At(t, "uninit15")
  /\ IF th[t].todo = {}
     THEN th' = [th EXCEPT ![t].pc = "uninit20"]
     ELSE \E id \in th[t].todo :
            th' = [th EXCEPT ![t].pc = "uninit16", ![t].clip = soundClips[id],
                             ![t].todo = th[t].todo \ {id}]
  /\ UNCHANGED <<soundClips, mtx, ctx, clips, tasks, crashed, eos>>
  /\ UNCHANGED duration

\* uninit, line 16
uninit16(t) ==
  /\ At(t, "uninit16")
  /\ LET a == th[t].clip
     IN /\ clips' = [clips EXCEPT ![a] = ma_decoder_uninit(clips[a])]
        /\ eos' = Touch(a)
  /\ th' = [th EXCEPT ![t].pc = "uninit17"]
  /\ UNCHANGED <<soundClips, mtx, ctx, tasks, crashed>>
  /\ UNCHANGED duration

\* uninit, line 17
uninit17(t) ==
  /\ At(t, "uninit17")
  /\ LET a == th[t].clip
     IN /\ clips' = [clips EXCEPT ![a] = ma_device_uninit(clips[a])]
        /\ eos' = Touch(a)
  /\ th' = [th EXCEPT ![t].pc = "uninit18"]
  /\ UNCHANGED <<soundClips, mtx, ctx, tasks, crashed>>
  /\ UNCHANGED duration

\* uninit, line 18
uninit18(t) ==
  /\ At(t, "uninit18")
  /\ LET a == th[t].clip
     IN /\ clips' = [clips EXCEPT ![a] = FreedClip]
        /\ eos' = Touch(a)
  /\ th' = [th EXCEPT ![t].pc = "uninit15", ![t].clip = NULL]
  /\ UNCHANGED <<soundClips, mtx, ctx, tasks, crashed>>
  /\ UNCHANGED duration

\* uninit, lines 20-23: the map and the backend context are released; then
\* delete context on an AudioContext that init returned by value, and a read
\* of context->mtx after it, which can kill the process
uninit20(t) ==
  /\ At(t, "uninit20")
  /\ soundClips' = [id \in Ids |-> NULL]
  /\ ctx' = "closed"
  /\ th' = Done(t, "void")
  /\ \E killed \in BOOLEAN : crashed' = killed
  /\ UNCHANGED <<mtx, clips, tasks, eos>>
  /\ UNCHANGED duration

\* ---------------------------------------------------------------------
Next ==
  \/ \E a \in Clips : data_callback(a)
  \/ \E a \in Clips : data_callbackReleased(a)
  \/ \E r \in BagToSet(tasks) : ResetLock(r)
  \/ \E r \in BagToSet(tasks) : ResetStop(r)
  \/ \E r \in BagToSet(tasks) : ResetSeek(r)
  \/ \E r \in BagToSet(tasks) : ResetRestore(r)
  \/ \E r \in BagToSet(tasks) : ResetReleased(r)
  \/ \E t \in Threads, id \in Ids, value \in Gains : setVolume(t, id, value)
  \/ \E t \in Threads, id \in Ids : getVolume(t, id)
  \/ \E t \in Threads, id \in Ids : play35(t, id)
  \/ \E t \in Threads : play36(t)
  \/ \E t \in Threads, id \in Ids : reset43(t, id)
  \/ \E t \in Threads : reset44(t)
  \/ \E t \in Threads : reset45(t)
  \/ \E t \in Threads, id \in Ids : stop(t, id)
  \/ \E t \in Threads, id \in Ids : isPlaying(t, id)
  \/ \E t \in Threads, id \in Ids : getDuration(t, id)
  \/ \E t \in Threads, id \in Ids : load53(t, id)
  \/ \E t \in Threads : load83(t)
  \/ \E t \in Threads : load84(t)
  \/ \E t \in Threads, id \in Ids : removeSound90(t, id)
  \/ \E t \in Threads : removeSound91(t)
  \/ \E t \in Threads : removeSound92(t)
  \/ \E t \in Threads : removeSound93(t)
  \/ \E t \in Threads : removeSound94(t)
  \/ \E t \in Threads, id \in Ids : setAudioDevice132(t, id)
  \/ \E t \in Threads : setAudioDevice134(t)
  \/ \E t \in Threads : setAudioDevice135(t)
  \/ \E t \in Threads : uninit(t)
  \/ \E t \in Threads : uninit15(t)
  \/ \E t \in Threads : uninit16(t)
  \/ \E t \in Threads : uninit17(t)
  \/ \E t \in Threads : uninit18(t)
  \/ \E t \in Threads : uninit20(t)

Spec == Init /\ [][Next]_vars

\* the same program, with the end-of-stream history of the first clip kept
InitEos ==
  /\ soundClips = [id \in Ids |-> NULL]
  /\ mtx = 0
  /\ ctx = "open"
  /\ clips = [a \in Clips |-> NoClip]
  /\ tasks = EmptyBag
  /\ th = [t \in Threads |-> IdleThread]
  /\ crashed = FALSE
  /\ eos = [a \in Clips |-> IF a = 1 THEN NoEos ELSE Untracked]
  /\ duration = NoDuration

SpecEos == InitEos /\ [][Next]_vars

\* ---------------------------------------------------------------------
\* getDuration as a computation (AudioInterface.cc:158-162): the device's
\* sample rate and the decoder's length in frames go in, milliseconds come
\* out
\* ---------------------------------------------------------------------
MaxSeconds == 6

\* sample rates in Hz
SampleRates ==
  {8000, 11025, 12000, 16000, 22050, 24000, 32000, 44100, 48000, 88200, 96000, 192000}

\* lines 159-161: uint64_t arithmetic, both divisions truncate
DurationMs(frames, sampleRate) == frames \div (sampleRate \div 1000)

\* a clip of a whole number of seconds at one of the sample rates
InitDuration ==
  /\ soundClips = [id \in Ids |-> NULL]
  /\ mtx = 0
  /\ ctx = "open"
  /\ clips = [a \in Clips |-> NoClip]
  /\ tasks = EmptyBag
  /\ th = [t \in Threads |-> IdleThread]
  /\ crashed = FALSE
  /\ eos = [a \in Clips |-> Untracked]
  /\ \E sampleRate \in SampleRates, seconds \in 1..MaxSeconds :
       duration = [sampleRate |-> sampleRate, frames |-> seconds * sampleRate, ms |-> -1]

getDurationMs ==
  /\ duration.sampleRate > 0
  /\ duration.ms = -1
  /\ duration' = [duration EXCEPT !.ms = DurationMs(duration.frames, duration.sampleRate)]
  /\ UNCHANGED <<soundClips, mtx, ctx, clips, tasks, th, crashed, eos>>

NextDuration == getDurationMs

SpecDuration == InitDuration /\ [][NextDuration]_vars

\* ---------------------------------------------------------------------
\* The control plane with more than one output device to bind to, while the
\* backend asks no device for data: load, play, stop, setAudioDevice and
\* removeSound
\* ---------------------------------------------------------------------
NumOutputs == 2

Outputs == 1..NumOutputs

NextRebind ==
  \/ \E t \in Threads, id \in Ids : load53From(t, id, Outputs)
  \/ \E t \in Threads : load83(t)
  \/ \E t \in Threads : load84(t)
  \/ \E t \in Threads, id \in Ids : play35(t, id)
  \/ \E t \in Threads : play36(t)
  \/ \E t \in Threads, id \in Ids : stop(t, id)
  \/ \E t \in Threads, id \in Ids : setAudioDevice132From(t, id, Outputs)
  \/ \E t \in Threads : setAudioDevice134(t)
  \/ \E t \in Threads : setAudioDevice135(t)
  \/ \E t \in Threads, id \in Ids : removeSound90(t, id)
  \/ \E t \in Threads : removeSound91(t)
  \/ \E t \in Threads : removeSound92(t)
  \/ \E t \in Threads : removeSound93(t)
  \/ \E t \in Threads : removeSound94(t)

SpecRebind == Init /\ [][NextRebind]_vars

\* ---------------------------------------------------------------------
\* The voices while they live: the callback, the reset threads and the
\* control calls that keep a voice (load, play, stop, reset, setVolume,
\* getVolume, isPlaying).  The operating system schedules every detached
\* thread that can run, and a thread that waits for clip->mtx gets it when
\* the mutex is free again and again.
\* ---------------------------------------------------------------------
NextResets ==
  \/ \E a \in Clips : data_callback(a)
  \/ \E r \in BagToSet(tasks) : ResetLock(r)
  \/ \E r \in BagToSet(tasks) : ResetStop(r)
  \/ \E r \in BagToSet(tasks) : ResetSeek(r)
  \/ \E r \in BagToSet(tasks) : ResetRestore(r)
  \/ \E t \in Threads, id \in Ids, value \in Gains : setVolume(t, id, value)
  \/ \E t \in Threads, id \in Ids : getVolume(t, id)
  \/ \E t \in Threads, id \in Ids : play35(t, id)
  \/ \E t \in Threads : play36(t)
  \/ \E t \in Threads, id \in Ids : reset43(t, id)
  \/ \E t \in Threads : reset44(t)
  \/ \E t \in Threads : reset45(t)
  \/ \E t \in Threads, id \in Ids : stop(t, id)
  \/ \E t \in Threads, id \in Ids : isPlaying(t, id)
  \/ \E t \in Threads, id \in Ids : load53(t, id)
  \/ \E t \in Threads : load83(t)
  \/ \E t \in Threads : load84(t)

\* a reset thread of clip a takes clip->mtx
LockStep(a) == \E r \in InFlight(a) : ResetLock(r)

\* the reset thread of clip a that holds clip->mtx runs its next statement
InsideStep(a) == \E r \in InFlight(a) : ResetStop(r) \/ ResetSeek(r) \/ ResetRestore(r)

FairResets ==
  \A a \in Clips : SF_vars(LockStep(a)) /\ WF_vars(InsideStep(a))

SpecResets == Init /\ [][NextResets]_vars /\ FairResets

\* ---------------------------------------------------------------------
\* Several control threads that call load and removeSound at the same time
\* ---------------------------------------------------------------------
NumRacers == 2

Racers == 1..NumRacers

InitRace ==
  /\ soundClips = [id \in Ids |-> NULL]
  /\ mtx = 0
  /\ ctx = "open"
  /\ clips = [a \in Clips |-> NoClip]
  /\ tasks = EmptyBag
  /\ th = [t \in Racers |-> IdleThread]
  /\ crashed = FALSE
  /\ eos = [a \in Clips |-> Untracked]
  /\ duration = NoDuration

NextRace ==
  \/ \E t \in Racers, id \in Ids : load53(t, id)
  \/ \E t \in Racers : load83(t)
  \/ \E t \in Racers : load84(t)
  \/ \E t \in Racers, id \in Ids : removeSound90(t, id)
  \/ \E t \in Racers : removeSound91(t)
  \/ \E t \in Racers : removeSound92(t)
  \/ \E t \in Racers : removeSound93(t)
  \/ \E t \in Racers : removeSound94(t)

SpecRace == InitRace /\ [][NextRace]_vars

TypeOK ==
  /\ soundClips \in [Ids -> Clips \cup {NULL}]
  /\ mtx \in DOMAIN th \cup {0}
  /\ ctx \in {"open", "closed"}
  /\ \A a \in Clips :
       /\ clips[a].mem \in {"unalloc", "live", "freed"}
       /\ clips[a].decoder \in {"none", "open", "closed"}
       /\ clips[a].cursor \in 0..ClipLen
       /\ clips[a].device \in {"none", "stopped", "started", "closed"}
       /\ clips[a].masterVolumeFactor \in Gains
       /\ clips[a].mtx \in BOOLEAN
       /\ eos[a] \in Gains \cup {NoEos, Untracked}
  /\ BagCardinality(tasks) <= MaxResets
  /\ \A r \in BagToSet(tasks) :
       r.clip \in Clips /\ r.oldVolume \in Gains /\ r.pc \in {"lock", "stop", "seek", "restore"}
  /\ crashed \in BOOLEAN

\* ---------------------------------------------------------------------
\* The claims
\* ---------------------------------------------------------------------
ControlIdle == \A t \in Threads : th[t].pc = "idle"

\* C1: after a short read at gain g, once the reset threads spawned for the
\* clip have all finished and with no control call since the short read,
\* the clip is not playing, its gain is g again and its decoder is at
\* frame 0.
C1_EndOfStreamRestoresGain ==
  \A a \in Clips :
    (eos[a] \in Gains /\ InFlight(a) = {} /\ ControlIdle)
      => /\ ~ma_device_is_started(clips[a])
         /\ clips[a].masterVolumeFactor = eos[a]
         /\ clips[a].cursor = 0

\* C2: removeSound and uninit release the decoder and the memory of a clip
\* only when every reset thread spawned for it has finished, so that no reset
\* thread locks, stops, seeks or writes the gain of a released voice.
C2_NoResetOnReleasedVoice ==
  [][\A a \in Clips :
       (\/ clips[a].decoder = "open" /\ clips'[a].decoder # "open"
        \/ clips[a].mem = "live" /\ clips'[a].mem # "live")
         => InFlight(a) = {}]_vars

\* C3: the decoder of a clip is released only once its device is stopped (no
\* callback can read a released decoder), and removeSound erases the map
\* entry only after device and decoder are released.
C3_DeviceStoppedBeforeDecoderRelease ==
  /\ \A a \in Clips :
       clips[a].decoder = "closed" => ~ma_device_is_started(clips[a])
  /\ \A t \in Threads :
       th[t].pc = "removeSound94" =>
         LET a == soundClips[th[t].id]
         IN ~ma_device_is_started(clips[a]) /\ clips[a].decoder # "open"

\* C4: when reset(id) returns for a registered id, the device is stopped, the
\* gain is 0 and the decoder is at frame 0.
C4_ResetLeavesStoppedMutedAtStart ==
  [][\A t \in Threads :
       (th[t].pc = "reset45" /\ th'[t].ret = "void") =>
         LET a == soundClips[th[t].id]
         IN /\ ~ma_device_is_started(clips'[a])
            /\ clips'[a].masterVolumeFactor = 0
            /\ clips'[a].cursor = 0]_vars

\* the first statement of a control call that looks id up
Calls(t, id) ==
  \/ \E value \in Gains : setVolume(t, id, value)
  \/ getVolume(t, id)
  \/ play35(t, id)
  \/ reset43(t, id)
  \/ stop(t, id)
  \/ isPlaying(t, id)
  \/ getDuration(t, id)
  \/ setAudioDevice132(t, id)
  \/ removeSound90(t, id)

\* C5: removeSound(id) ends with id out of the map; id comes back into the
\* map only by the insert of a load(id); and while id is not in the map,
\* every control call on id (setVolume, getVolume, play, reset, stop,
\* isPlaying, getDuration, setAudioDevice, removeSound) throws out_of_range
\* and leaves the map and every clip as they were.
C5_RemovedIdIsNotFound ==
  [][\A t \in Threads, id \in Ids :
       /\ (removeSound94(t) /\ th[t].id = id) => ~Has(soundClips', id)
       /\ (~Has(soundClips, id) /\ Has(soundClips', id))
            => \E u \in Threads : load84(u) /\ th[u].id = id
       /\ (~Has(soundClips, id) /\ Calls(t, id))
            => /\ th'[t].pc = "idle"
               /\ th'[t].ret = "out_of_range"
               /\ UNCHANGED <<soundClips, clips>>]_vars

\* a clip has been removed, the map is empty, and the last control call threw
C5_Witness ==
  /\ \E a \in Clips : clips[a].mem = "freed"
  /\ \A id \in Ids : ~Has(soundClips, id)
  /\ ctx = "open"
  /\ \E t \in Threads : th[t].pc = "idle" /\ th[t].ret = "out_of_range"

\* the statements of load(id)
Loads(t, id) ==
  \/ load53(t, id)
  \/ th[t].id = id /\ (load83(t) \/ load84(t))

\* C6: no statement of a load(id) run while id is in the map changes the
\* entry of id or the clip it points to (device, decoder position, gain).
C6_DuplicateLoadKeepsFirst ==
  [][\A t \in Threads, id \in Ids :
       (Has(soundClips, id) /\ Loads(t, id))
         => /\ soundClips'[id] = soundClips[id]
            /\ clips'[soundClips[id]] = clips[soundClips[id]]]_vars

\* a load has returned while the first clip of its id was playing: the id
\* still maps to the first clip, and the second clip is in no entry
C6_Witness ==
  \E id \in Ids, a \in Clips, b \in Clips :
    /\ a < b
    /\ soundClips[id] = a
    /\ ma_device_is_started(clips[a])
    /\ clips[b].mem = "live"
    /\ b \notin Registered
    /\ \A t \in Threads : th[t].pc = "idle" /\ th[t].ret = "0"

\* C7: a load(id) that reaches its insert while id is in the map does not
\* return 0.
C7_DuplicateLoadRejected ==
  [][\A t \in Threads :
       (load84(t) /\ Has(soundClips, th[t].id)) => th'[t].ret # "0"]_vars

\* C8: while no load is running, every clip with an open decoder or an open
\* device is in the map.
C8_NoLeakedClip ==
  (\A t \in Threads : th[t].op # "load")
    => \A a \in Clips :
         (clips[a].decoder = "open" \/ clips[a].device \in {"stopped", "started"})
           => a \in Registered

\* C9: when a load(id) returns 0, the clip id maps to is not playing; a clip
\* starts playing only in the ma_device_start of a play on its id; when that
\* play returns without the start failing, the clip is playing; and play on
\* a started clip returns at once and changes nothing.
C9_PlayStarts ==
  [][/\ \A t \in Threads :
          (load84(t) /\ th'[t].ret = "0")
            => ~ma_device_is_started(clips'[soundClips'[th[t].id]])
     /\ \A a \in Clips :
          (~ma_device_is_started(clips[a]) /\ ma_device_is_started(clips'[a]))
            => \E t \in Threads :
                 play36(t) /\ Has(soundClips, th[t].id) /\ soundClips[th[t].id] = a
     /\ \A t \in Threads :
          (play36(t) /\ th'[t].ret = "void")
            => ma_device_is_started(clips'[soundClips[th[t].id]])
     /\ \A t \in Threads, id \in Ids :
          (play35(t, id) /\ Has(soundClips, id)
             /\ ma_device_is_started(clips[soundClips[id]]))
            => th'[t].pc = "idle" /\ UNCHANGED <<soundClips, clips, tasks>>]_vars

\* the statements of play, reset, stop and setVolume on id
Controls(t, id) ==
  \/ \E value \in Gains : setVolume(t, id, value)
  \/ play35(t, id)
  \/ reset43(t, id)
  \/ stop(t, id)
  \/ th[t].id = id /\ (play36(t) \/ reset44(t) \/ reset45(t))

\* the callback of clip a and the statements of its reset threads
EndOfStream(a) ==
  \/ data_callback(a)
  \/ \E r \in InFlight(a) : ResetLock(r) \/ ResetStop(r) \/ ResetSeek(r) \/ ResetRestore(r)

\* the entry of id or the clip it points to changes in this step
Changed(id) ==
  \/ soundClips'[id] # soundClips[id]
  \/ clips'[soundClips[id]] # clips[soundClips[id]]

\* C10: a step that changes a registered clip (its device, gain or decoder
\* position) is no statement of a play, reset, stop or setVolume on another
\* id, and it is neither the callback nor a reset thread of another clip.
C10_VoicesIndependent ==
  [][/\ \A id \in Ids, other \in Ids :
          (id # other /\ Has(soundClips, other) /\ Changed(other))
            => \A t \in Threads : ~Controls(t, id)
     /\ \A a \in Clips, b \in Clips :
          (a # b /\ clips'[b] # clips[b]) => ~EndOfStream(a)]_vars

\* two registered clips, one playing on, the other stopped mid-stream by the
\* control plane
C10_Witness ==
  \E id \in Ids, other \in Ids :
    /\ id # other
    /\ Has(soundClips, id) /\ Has(soundClips, other)
    /\ clips[soundClips[id]].device = "stopped"
    /\ clips[soundClips[id]].cursor > 0
    /\ ma_device_is_started(clips[soundClips[other]])
    /\ clips[soundClips[other]].cursor > 0
    /\ tasks = EmptyBag
    /\ \A t \in Threads : th[t].pc = "idle" /\ th[t].ret = "void"

\* C11: getDuration on a clip of exactly 2 * sampleRate frames returns 2000,
\* at every sample rate.
C11_TwoSecondsIs2000 ==
  (duration.ms # -1 /\ duration.frames = 2 * duration.sampleRate)
    => duration.ms = 2000

\* the device of the clip is open
Open(c) == c.device \in {"stopped", "started"}

\* C12: when setAudioDevice(id, d) has opened the device again, the clip is
\* bound to d, the device its audioDevice field records.
C12_ReboundToRequestedDevice ==
  [][\A t \in Threads :
       (setAudioDevice135(t) /\ Has(soundClips, th[t].id))
         => LET c == clips'[soundClips[th[t].id]]
            IN c # clips[soundClips[th[t].id]]
                 => Open(c) /\ c.bound = c.audioDevice]_vars

\* C13: when ma_device_init fails in setAudioDevice, the clip is as it was
\* when the call began: a device that was open is open, on the device it was
\* bound to, and the audioDevice field is unchanged.
C13_FailedRebindKeepsBinding ==
  [][\A t \in Threads :
       (setAudioDevice135(t) /\ Has(soundClips, th[t].id))
         => LET a == soundClips[th[t].id]
            IN clips'[a] = clips[a]
                 => /\ Open(th[t].was) => (Open(clips'[a]) /\ clips'[a].bound = th[t].was.bound)
                    /\ clips'[a].audioDevice = th[t].was.audioDevice]_vars

\* C14: data_callback does not seek and does not stop: no invocation moves
\* the decoder of its clip back or changes the state of its device, the one
\* with the short read included.
C14_CallbackDoesNotSeek ==
  [][\A a \in Clips :
       (clips'[a] # clips[a] /\ data_callback(a))
         => /\ clips'[a].cursor >= clips[a].cursor
            /\ clips'[a].device = clips[a].device]_vars

\* C15: while a reset thread of a clip is between its ma_device_stop and the
\* end of its seek, no data_callback of that clip runs.
C15_NoReadDuringResetSeek ==
  [][\A a \in Clips :
       (\E r \in InFlight(a) : r.pc = "seek") => ~data_callback(a)]_vars

\* the reset threads of clip a that hold its lock: past line 33, not yet
\* out of the lambda
Inside(a) == {r \in InFlight(a) : r.pc \in {"stop", "seek", "restore"}}

\* a reset thread of clip a runs one of its statements
ResetStep(a) == LockStep(a) \/ InsideStep(a)

CallbackDue(a) ==
  /\ ~crashed
  /\ clips[a].device = "started"
  /\ clips[a].decoder = "open"
  /\ clips[a].cursor < ClipLen \/ BagCardinality(tasks) < MaxResets

\* C17: data_callback waits for no lock: whenever the backend can ask a
\* device for data, the invocation can run to its end, whoever holds the
\* registry lock or clip->mtx.
C17_CallbackNeverWaits ==
  \A a \in Clips : CallbackDue(a) => ENABLED data_callback(a)

\* a callback is due while a control thread holds the registry lock and a
\* reset thread holds clip->mtx
C17_Witness ==
  \E a \in Clips :
    /\ CallbackDue(a)
    /\ clips[a].mtx
    /\ mtx # 0

\* the statements of the control plane that look an id up in soundClips,
\* insert into it, erase from it, iterate over it or delete it
MapAccess(t) ==
  \/ \E id \in Ids : Calls(t, id)
  \/ play36(t) \/ reset44(t) \/ reset45(t)
  \/ load84(t)
  \/ removeSound91(t) \/ removeSound92(t) \/ removeSound94(t)
  \/ setAudioDevice134(t) \/ setAudioDevice135(t)
  \/ uninit(t) \/ uninit15(t) \/ uninit20(t)

\* C18: a control thread runs a statement that accesses soundClips only
\* while it holds the registry lock.
C18_MapAccessUnderLock ==
  [][\A t \in Threads : (mtx # t) => ~MapAccess(t)]_vars

\* C19: a clip is torn down once: removeSound runs ma_device_uninit only on
\* a device not yet released, ma_decoder_uninit only on an open decoder and
\* delete only on a live SoundClip, also when two threads call removeSound
\* on the same id.
C19_TornDownOnce ==
  [][\A t \in Racers :
       /\ \A id \in Ids :
            (Has(soundClips, id) /\ removeSound90(t, id))
              => clips[soundClips[id]].device # "closed"
       /\ (th[t].pc = "removeSound91" /\ Has(soundClips, th[t].id) /\ removeSound91(t))
            => clips[soundClips[th[t].id]].decoder = "open"
       /\ (th[t].pc = "removeSound92" /\ Has(soundClips, th[t].id) /\ removeSound92(t))
            => clips[soundClips[th[t].id]].mem = "live"]_vars

\* C20: when setVolume(id, value) has returned while a reset thread of the
\* clip was alive (after the mute of the short read, before the restore), no
\* control call has been made since, and the reset threads of the clip have
\* all ended, the gain of the clip is value.
C20_SetVolumeSurvivesReset ==
  \A t \in Threads :
    (th[t].pc = "idle" /\ th[t].was.id # NULL /\ Has(soundClips, th[t].was.id))
      => LET a == soundClips[th[t].was.id]
         IN InFlight(a) = {} => clips[a].masterVolumeFactor = th[t].was.value

====
